---------------------------- MODULE Spec2Model ----------------------------
(***************************************************************************)
(* Battleship puzzle solution checker (Battleship_puzzle.py).              *)
(*                                                                         *)
(* A fleet of Objetivo objects (Barco, Submarino) is built first, then a   *)
(* Tablero is constructed from it: the constructor paints the grid         *)
(* (construir_matriz).  Afterwards the validators are called; each call    *)
(* leaves its outcome in ret.  Python list indexing is modelled as Python  *)
(* does it: an index i of a list of length n is legal iff -n <= i < n, a   *)
(* negative legal index counts from the end, anything else is IndexError.  *)
(***************************************************************************)
EXTENDS Integers, Sequences, FiniteSets, TLC

VARIABLES
    flota,            \* list[Objetivo] handed to Tablero
    tamano_tablero,   \* (nFilas, nColumnas)
    pistas,           \* fixed-cell assertions (fila, columna, tipo)
    pistas_filas,     \* per-row counts
    pistas_cols,      \* per-column counts
    matriz,           \* matriz[f][c], 0-based
    pc,               \* "flota": targets are being created; "tablero": Tablero exists
    ret               \* outcome of the last validator call

vars == <<flota, tamano_tablero, pistas, pistas_filas, pistas_cols, matriz, pc, ret>>

----------------------------------------------------------------------------
(* Bounds of the model *)

MaxFlota == 2          \* targets in a fleet (fleet specification)
MaxTrio == 3           \* targets in a fleet (trio specification)
MaxLen == 2            \* ship length (fleet, trio and count specifications)
MaxFlotaGeo == 1       \* targets created (geometry specification)
MaxLongitud == 4       \* ship length (geometry specification)
MaxAncla == 3          \* largest anchor coordinate (geometry specification)
MaxFlotaTablero == 1   \* targets in a fleet (count, clue and precondition specifications)
MaxDimCuentas == 3     \* grid rows / columns (count specification)
MaxDim == 2            \* grid rows / columns (clue and precondition specifications)
MaxPista == 1          \* largest clue count
MaxPistas == 2         \* fixed-cell assertions on a board

----------------------------------------------------------------------------
(* Pieza, Direccion, Celda, Objetivo *)

Pieza == {"W", "C", "L", "R", "T", "B", "M"}

es_barco(tipo) == tipo # "W"

Direccion == {"VERTICAL", "HORIZONTAL"}

None == [fila |-> 0, columna |-> 0, tipo |-> "None"]

Celda(fila, columna, tipo) == [fila |-> fila, columna |-> columna, tipo |-> tipo]

\* construir_partes_barco with the middle loop running one cell too far: range(1, longitud)
construir_partes_barco_rango_largo(longitud, direccion, ubicacion) ==
    LET f_ini == ubicacion[1]
        c_ini == ubicacion[2]
    IN  [k \in 1..longitud |->
            IF k = 1
            THEN Celda(f_ini, c_ini, IF direccion = "VERTICAL" THEN "T" ELSE "L")
            ELSE IF direccion = "VERTICAL"
                 THEN Celda(f_ini + (k - 1), c_ini, "M")
                 ELSE Celda(f_ini, c_ini + (k - 1), "M")]

\* range(1, longitud - 1) as 1-based list positions: Python partes[i] is partes[i + 1] here
construir_partes_barco(longitud, direccion, ubicacion) ==
    LET f_ini == ubicacion[1]
        c_ini == ubicacion[2]
        partes == [i \in 1..longitud |-> None]
    IN  IF direccion = "VERTICAL"
        THEN LET p0 == [partes EXCEPT ![1] = Celda(f_ini, c_ini, "T")]
                 p1 == [p0 EXCEPT ![longitud] = Celda(f_ini + longitud - 1, c_ini, "B")]
             IN  [k \in 1..longitud |->
                    IF (k - 1) \in 1..(longitud - 2)
                    THEN Celda(f_ini + (k - 1), c_ini, "M")
                    ELSE p1[k]]
        ELSE IF direccion = "HORIZONTAL"
        THEN LET p0 == [partes EXCEPT ![1] = Celda(f_ini, c_ini, "L")]
                 p1 == [p0 EXCEPT ![longitud] = Celda(f_ini, c_ini + longitud - 1, "R")]
             IN  [k \in 1..longitud |->
                    IF (k - 1) \in 1..(longitud - 2)
                    THEN Celda(f_ini, c_ini + (k - 1), "M")
                    ELSE p1[k]]
        ELSE partes

Barco(ubicacion, longitud, direccion) ==
    [clase |-> "Barco", longitud |-> longitud, direccion |-> direccion,
     ubicacion |-> ubicacion,
     partes |-> construir_partes_barco(longitud, direccion, ubicacion)]

Submarino(ubicacion) ==
    [clase |-> "Submarino", ubicacion |-> ubicacion,
     partes |-> <<Celda(ubicacion[1], ubicacion[2], "C")>>]

----------------------------------------------------------------------------
(* Python list indexing *)

IndexError == "IndexError"

\* lista[i] is legal for a list of length n
indice_legal(n, i) == -n <= i /\ i < n

\* the 0-based position lista[i] denotes when legal
indice(n, i) == IF i < 0 THEN i + n ELSE i

\* matriz[f][c]: the kind stored there, or IndexError
leer(m, f, c) ==
    LET n == Cardinality(DOMAIN m)
    IN  IF ~indice_legal(n, f) THEN IndexError
        ELSE LET fila == m[indice(n, f)]
                 k == Cardinality(DOMAIN fila)
             IN  IF ~indice_legal(k, c) THEN IndexError ELSE fila[indice(k, c)]

\* 0 <= f < filas and 0 <= c < cols
dentro(f, c, filas, cols) == 0 <= f /\ f < filas /\ 0 <= c /\ c < cols

----------------------------------------------------------------------------
(* Tablero.construir_matriz *)

\* pintar_partes guarding only the upper bounds (f < filas and c < cols): a negative
\* coordinate then indexes from the end, as Python lists do
RECURSIVE pintar_partes_sin_cero(_, _, _, _, _)
pintar_partes_sin_cero(m, partes, k, filas, cols) ==
    IF k > Len(partes) THEN m
    ELSE LET celda == partes[k]
             f == celda.fila
             c == celda.columna
         IN  IF f < filas /\ c < cols /\ indice_legal(filas, f) /\ indice_legal(cols, c)
             THEN pintar_partes_sin_cero(
                      [m EXCEPT ![indice(filas, f)][indice(cols, c)] = celda.tipo],
                      partes, k + 1, filas, cols)
             ELSE pintar_partes_sin_cero(m, partes, k + 1, filas, cols)

RECURSIVE pintar_partes(_, _, _, _, _)
pintar_partes(m, partes, k, filas, cols) ==
    IF k > Len(partes) THEN m
    ELSE LET celda == partes[k]
             f == celda.fila
             c == celda.columna
         IN  IF dentro(f, c, filas, cols)
             THEN pintar_partes([m EXCEPT ![f][c] = celda.tipo], partes, k + 1, filas, cols)
             ELSE pintar_partes(m, partes, k + 1, filas, cols)

RECURSIVE pintar_flota(_, _, _, _, _)
pintar_flota(m, fl, n, filas, cols) ==
    IF n > Len(fl) THEN m
    ELSE pintar_flota(pintar_partes(m, fl[n].partes, 1, filas, cols), fl, n + 1, filas, cols)

\* construir_matriz painting the fleet in reverse order, so that earlier targets win
construir_matriz_invertida(tamano, fl) ==
    LET filas == tamano[1]
        cols == tamano[2]
        agua == [f \in 0..(filas - 1) |-> [c \in 0..(cols - 1) |-> "W"]]
        invertida == [n \in 1..Len(fl) |-> fl[Len(fl) + 1 - n]]
    IN  pintar_flota(agua, invertida, 1, filas, cols)

construir_matriz(tamano, fl) ==
    LET filas == tamano[1]
        cols == tamano[2]
        agua == [f \in 0..(filas - 1) |-> [c \in 0..(cols - 1) |-> "W"]]
    IN  pintar_flota(agua, fl, 1, filas, cols)

----------------------------------------------------------------------------
(* Objetivo: the three predicates and the orchestrator.  Each returns      *)
(* [val, lecturas]: val is "True", "False" or IndexError (the exception),  *)
(* lecturas the positions (f, c) at which it evaluated matriz[f][c].       *)

Resultado(val, lecturas) == [val |-> val, lecturas |-> lecturas]

RECURSIVE limites_desde(_, _, _, _)
limites_desde(partes, k, filas, cols) ==
    IF k > Len(partes) THEN "True"
    ELSE IF ~dentro(partes[k].fila, partes[k].columna, filas, cols) THEN "False"
    ELSE limites_desde(partes, k + 1, filas, cols)

validar_limites(obj, tamano, m) ==
    Resultado(limites_desde(obj.partes, 1, tamano[1], tamano[2]), {})

RECURSIVE integridad_desde(_, _, _, _, _, _)
integridad_desde(partes, k, filas, cols, m, lecturas) ==
    IF k > Len(partes) THEN Resultado("True", lecturas)
    ELSE LET parte == partes[k]
             leidas == lecturas \cup {<<parte.fila, parte.columna>>}
         IN  IF ~dentro(parte.fila, parte.columna, filas, cols)
             THEN Resultado("False", lecturas)
             ELSE IF leer(m, parte.fila, parte.columna) = IndexError
             THEN Resultado(IndexError, leidas)
             ELSE IF leer(m, parte.fila, parte.columna) # parte.tipo
             THEN Resultado("False", leidas)
             ELSE integridad_desde(partes, k + 1, filas, cols, m, leidas)

\* validar_integridad without the bounds guard before the read
RECURSIVE integridad_sin_limites_desde(_, _, _, _)
integridad_sin_limites_desde(partes, k, m, lecturas) ==
    IF k > Len(partes) THEN Resultado("True", lecturas)
    ELSE LET parte == partes[k]
             leidas == lecturas \cup {<<parte.fila, parte.columna>>}
         IN  IF leer(m, parte.fila, parte.columna) = IndexError
             THEN Resultado(IndexError, leidas)
             ELSE IF leer(m, parte.fila, parte.columna) # parte.tipo
             THEN Resultado("False", leidas)
             ELSE integridad_sin_limites_desde(partes, k + 1, m, leidas)

validar_integridad_sin_limites(obj, tamano, m) ==
    integridad_sin_limites_desde(obj.partes, 1, m, {})

validar_integridad(obj, tamano, m) ==
    integridad_desde(obj.partes, 1, tamano[1], tamano[2], m, {})

\* deltas without the four diagonal offsets
deltas_ortogonales == << <<-1, 0>>, <<0, -1>>, <<0, 1>>, <<1, 0>> >>

deltas == << <<-1, -1>>, <<-1, 0>>, <<-1, 1>>,
             <<0, -1>>,             <<0, 1>>,
             <<1, -1>>,  <<1, 0>>,  <<1, 1>> >>

\* the loop over partes (k) and, inside it, over deltas (d)
RECURSIVE espaciado_desde(_, _, _, _, _, _, _, _)
espaciado_desde(partes, mis_coordenadas, k, d, filas, cols, m, lecturas) ==
    IF k > Len(partes) THEN Resultado("True", lecturas)
    ELSE IF ~dentro(partes[k].fila, partes[k].columna, filas, cols)
    THEN espaciado_desde(partes, mis_coordenadas, k + 1, 1, filas, cols, m, lecturas)
    ELSE IF d > Len(deltas)
    THEN espaciado_desde(partes, mis_coordenadas, k + 1, 1, filas, cols, m, lecturas)
    ELSE LET vecino_f == partes[k].fila + deltas[d][1]
             vecino_c == partes[k].columna + deltas[d][2]
             leidas == lecturas \cup {<<vecino_f, vecino_c>>}
         IN  IF dentro(vecino_f, vecino_c, filas, cols)
                /\ <<vecino_f, vecino_c>> \notin mis_coordenadas
             THEN IF leer(m, vecino_f, vecino_c) = IndexError
                  THEN Resultado(IndexError, leidas)
                  ELSE IF leer(m, vecino_f, vecino_c) # "W"
                  THEN Resultado("False", leidas)
                  ELSE espaciado_desde(partes, mis_coordenadas, k, d + 1,
                                       filas, cols, m, leidas)
             ELSE espaciado_desde(partes, mis_coordenadas, k, d + 1,
                                  filas, cols, m, lecturas)

validar_espaciado(obj, tamano, m) ==
    LET mis_coordenadas == {<<obj.partes[k].fila, obj.partes[k].columna>> :
                                k \in 1..Len(obj.partes)}
    IN  espaciado_desde(obj.partes, mis_coordenadas, 1, 1, tamano[1], tamano[2], m, {})

validar_restricciones(obj, tamano, m) ==
    LET lim == validar_limites(obj, tamano, m)
        int == validar_integridad(obj, tamano, m)
        esp == validar_espaciado(obj, tamano, m)
    IN  IF lim.val # "True" THEN lim
        ELSE IF int.val # "True" THEN int
        ELSE IF esp.val # "True" THEN Resultado(esp.val, int.lecturas \cup esp.lecturas)
        ELSE Resultado("True", int.lecturas \cup esp.lecturas)

----------------------------------------------------------------------------
(* Tablero: the fleet filter and the aggregate checks *)

obtener_barcos_invalidos(fl, tamano, m) ==
    SelectSeq(fl, LAMBDA barco : validar_restricciones(barco, tamano, m).val # "True")

\* sum(1 for c in range(cols) if self.matriz[f][c].es_barco())
suma_fila(m, f, cols) == Cardinality({c \in 0..(cols - 1) : es_barco(leer(m, f, c))})

suma_columna(m, c, filas) == Cardinality({f \in 0..(filas - 1) : es_barco(leer(m, f, c))})

\* the column loop of validar_cuentas comparing against the clue of column 0 throughout
RECURSIVE cuentas_columnas_fijas(_, _, _, _, _)
cuentas_columnas_fijas(m, c, filas, cols, pcols) ==
    IF c >= cols THEN "True"
    ELSE IF ~indice_legal(Len(pcols), 0) THEN IndexError
    ELSE IF suma_columna(m, c, filas) # pcols[1] THEN "False"
    ELSE cuentas_columnas_fijas(m, c + 1, filas, cols, pcols)

RECURSIVE cuentas_columnas(_, _, _, _, _)
cuentas_columnas(m, c, filas, cols, pcols) ==
    IF c >= cols THEN "True"
    ELSE IF ~indice_legal(Len(pcols), c) THEN IndexError
    ELSE IF suma_columna(m, c, filas) # pcols[indice(Len(pcols), c) + 1] THEN "False"
    ELSE cuentas_columnas(m, c + 1, filas, cols, pcols)

RECURSIVE cuentas_filas(_, _, _, _, _, _)
cuentas_filas(m, f, filas, cols, pfilas, pcols) ==
    IF f >= filas THEN cuentas_columnas(m, 0, filas, cols, pcols)
    ELSE IF ~indice_legal(Len(pfilas), f) THEN IndexError
    ELSE IF suma_fila(m, f, cols) # pfilas[indice(Len(pfilas), f) + 1] THEN "False"
    ELSE cuentas_filas(m, f + 1, filas, cols, pfilas, pcols)

validar_cuentas(tamano, m, pfilas, pcols) ==
    cuentas_filas(m, 0, tamano[1], tamano[2], pfilas, pcols)

RECURSIVE pistas_desde(_, _, _, _)
pistas_desde(m, ps, k, lecturas) ==
    IF k > Len(ps) THEN Resultado("True", lecturas)
    ELSE LET fila == ps[k][1]
             columna == ps[k][2]
             tipo == ps[k][3]
             leidas == lecturas \cup {<<fila, columna>>}
         IN  IF leer(m, fila, columna) = IndexError THEN Resultado(IndexError, leidas)
             ELSE IF leer(m, fila, columna) # tipo THEN Resultado("False", leidas)
             ELSE pistas_desde(m, ps, k + 1, leidas)

validar_pistas(m, ps) == pistas_desde(m, ps, 1, {})

----------------------------------------------------------------------------
(* The program: create targets, construct the Tablero, call validators *)

Retorno(op, obj, val, lecturas, invalidos) ==
    [op |-> op, obj |-> obj, val |-> val, lecturas |-> lecturas, invalidos |-> invalidos]

SinRetorno == Retorno("ninguna", 0, "None", {}, <<>>)

Init ==
    /\ flota = <<>>
    /\ tamano_tablero = <<0, 0>>
    /\ pistas = <<>>
    /\ pistas_filas = <<>>
    /\ pistas_cols = <<>>
    /\ matriz = <<>>
    /\ pc = "flota"
    /\ ret = SinRetorno

tablero_vars == <<tamano_tablero, pistas, pistas_filas, pistas_cols, matriz>>

\* Barco(ubicacion, longitud, direccion), appended to the fleet under construction
NuevoBarco(ubicacion, longitud, direccion, max) ==
    /\ pc = "flota"
    /\ Len(flota) < max
    /\ flota' = Append(flota, Barco(ubicacion, longitud, direccion))
    /\ UNCHANGED <<tablero_vars, pc, ret>>

NuevoSubmarino(ubicacion, max) ==
    /\ pc = "flota"
    /\ Len(flota) < max
    /\ flota' = Append(flota, Submarino(ubicacion))
    /\ UNCHANGED <<tablero_vars, pc, ret>>

\* Tablero(nFilas, nColumnas, flota, pistas, pistas_filas, pistas_cols)
CrearTablero(nFilas, nColumnas, ps, pfilas, pcols) ==
    /\ pc = "flota"
    /\ tamano_tablero' = <<nFilas, nColumnas>>
    /\ pistas' = ps
    /\ pistas_filas' = pfilas
    /\ pistas_cols' = pcols
    /\ matriz' = construir_matriz(<<nFilas, nColumnas>>, flota)
    /\ pc' = "tablero"
    /\ UNCHANGED <<flota, ret>>

Llamada(op, obj, r) ==
    /\ pc = "tablero"
    /\ ret' = Retorno(op, obj, r.val, r.lecturas, <<>>)
    /\ UNCHANGED <<flota, tablero_vars, pc>>

ValidarLimites(i) ==
    Llamada("validar_limites", i, validar_limites(flota[i], tamano_tablero, matriz))

ValidarIntegridad(i) ==
    Llamada("validar_integridad", i, validar_integridad(flota[i], tamano_tablero, matriz))

ValidarEspaciado(i) ==
    Llamada("validar_espaciado", i, validar_espaciado(flota[i], tamano_tablero, matriz))

ObtenerBarcosInvalidos ==
    /\ pc = "tablero"
    /\ ret' = Retorno("obtener_barcos_invalidos", 0, "lista", {},
                      obtener_barcos_invalidos(flota, tamano_tablero, matriz))
    /\ UNCHANGED <<flota, tablero_vars, pc>>

ValidarCuentas ==
    Llamada("validar_cuentas", 0,
            Resultado(validar_cuentas(tamano_tablero, matriz, pistas_filas, pistas_cols), {}))

ValidarPistas ==
    Llamada("validar_pistas", 0, validar_pistas(matriz, pistas))

----------------------------------------------------------------------------
(* Fleet specification: fleets of up to MaxFlota targets, submarines and   *)
(* ships of length MaxLen, anchored from one cell before the grid's origin *)
(* to one cell after it; boards of 1..2 rows and columns and a board       *)
(* without columns.                                                        *)

Anclas == (-1..1) \X (-1..1)

Dimensiones == {<<2, 2>>, <<1, 2>>, <<2, 1>>, <<2, 0>>}

Next ==
    \/ /\ pc = "flota"
       /\ \E u \in Anclas : NuevoSubmarino(u, MaxFlota)
    \/ /\ pc = "flota"
       /\ \E u \in Anclas, d \in Direccion : NuevoBarco(u, MaxLen, d, MaxFlota)
    \/ /\ pc = "flota"
       /\ \E t \in Dimensiones : CrearTablero(t[1], t[2], <<>>, <<>>, <<>>)
    \/ \E i \in 1..Len(flota) : ValidarLimites(i)
    \/ \E i \in 1..Len(flota) : ValidarIntegridad(i)
    \/ \E i \in 1..Len(flota) : ValidarEspaciado(i)
    \/ ObtenerBarcosInvalidos

Spec == Init /\ [][Next]_vars

----------------------------------------------------------------------------
(* Trio specification: fleets of up to MaxTrio targets, submarines and     *)
(* ships of length MaxLen, anchored inside the 2x2 corner of a 2x2 or 2x3  *)
(* grid.                                                                   *)

AnclasTrio == (0..1) \X (0..1)

DimensionesTrio == {<<2, 2>>, <<2, 3>>}

NextTrio ==
    \/ /\ pc = "flota"
       /\ \E u \in AnclasTrio, d \in Direccion : NuevoBarco(u, MaxLen, d, MaxTrio)
    \/ /\ pc = "flota"
       /\ \E u \in AnclasTrio : NuevoSubmarino(u, MaxTrio)
    \/ /\ pc = "flota"
       /\ \E t \in DimensionesTrio : CrearTablero(t[1], t[2], <<>>, <<>>, <<>>)
    \/ \E i \in 1..Len(flota) : ValidarIntegridad(i)
    \/ \E i \in 1..Len(flota) : ValidarEspaciado(i)

SpecTrio == Init /\ [][NextTrio]_vars

----------------------------------------------------------------------------
(* Geometry specification: Barco and Submarino construction alone, anchors *)
(* from one cell before the origin to MaxAncla.                            *)

AnclasGeo == (-1..MaxAncla) \X (-1..MaxAncla)

NextGeometria ==
    \/ /\ pc = "flota"
       /\ \E u \in AnclasGeo, l \in 1..MaxLongitud, d \in Direccion :
               NuevoBarco(u, l, d, MaxFlotaGeo)
    \/ /\ pc = "flota"
       /\ \E u \in AnclasGeo : NuevoSubmarino(u, MaxFlotaGeo)

SpecGeometria == Init /\ [][NextGeometria]_vars

----------------------------------------------------------------------------
(* Count specification: fleets of submarines and ships of length MaxLen    *)
(* anchored in the grid's 2x2 corner; boards of 1..MaxDimCuentas rows and  *)
(* columns whose clue sequences have the grid's lengths, counts in         *)
(* 0..MaxPista.                                                            *)

AnclasTablero == (0..1) \X (0..1)

Cuentas(n) == [1..n -> 0..MaxPista]

NextCuentas ==
    \/ /\ pc = "flota"
       /\ \E u \in AnclasTablero, d \in Direccion :
               NuevoBarco(u, MaxLen, d, MaxFlotaTablero)
    \/ /\ pc = "flota"
       /\ \E u \in AnclasTablero : NuevoSubmarino(u, MaxFlotaTablero)
    \/ /\ pc = "flota"
       /\ \E nF \in 1..MaxDimCuentas, nC \in 1..MaxDimCuentas :
            \E pf \in Cuentas(nF), pcs \in Cuentas(nC) : CrearTablero(nF, nC, <<>>, pf, pcs)
    \/ ValidarCuentas

SpecCuentas == Init /\ [][NextCuentas]_vars

----------------------------------------------------------------------------
(* Precondition specification: any dimensions in -1..MaxDim and clue       *)
(* sequences of any length up to MaxDim + 1.                               *)

CuentasLibres == UNION {Cuentas(n) : n \in 0..(MaxDim + 1)}

NextPrecondicion ==
    \/ /\ pc = "flota"
       /\ \E u \in AnclasTablero : NuevoSubmarino(u, MaxFlotaTablero)
    \/ /\ pc = "flota"
       /\ \E nF \in -1..MaxDim, nC \in -1..MaxDim :
            \E pf \in CuentasLibres, pcs \in CuentasLibres :
                CrearTablero(nF, nC, <<>>, pf, pcs)
    \/ ValidarCuentas

SpecPrecondicion == Init /\ [][NextPrecondicion]_vars

----------------------------------------------------------------------------
(* Clue specification: up to MaxPistas fixed-cell assertions at positions  *)
(* on or one cell around the grid.                                         *)

Afirmaciones == (-1..MaxDim) \X (-1..MaxDim) \X {"W", "C"}

DimensionesPistas == (1..MaxDim) \X (1..MaxDim)

ListasPistas == UNION {[1..n -> Afirmaciones] : n \in 0..MaxPistas}

NextPistas ==
    \/ /\ pc = "flota"
       /\ \E u \in AnclasTablero : NuevoSubmarino(u, MaxFlotaTablero)
    \/ /\ pc = "flota"
       /\ \E t \in DimensionesPistas, ps \in ListasPistas : CrearTablero(t[1], t[2], ps, <<>>, <<>>)
    \/ ValidarPistas

SpecPistas == Init /\ [][NextPistas]_vars

----------------------------------------------------------------------------
(* Vocabulary of the properties *)

Tablero == pc = "tablero"

filas_tablero == tamano_tablero[1]

cols_tablero == tamano_tablero[2]

EnTablero(p) == dentro(p[1], p[2], filas_tablero, cols_tablero)

Posicion(celda) == <<celda.fila, celda.columna>>

Coordenadas(obj) == {Posicion(obj.partes[k]) : k \in 1..Len(obj.partes)}

TodoDentro(obj) == \A p \in Coordenadas(obj) : EnTablero(p)

\* q is one of the 8 neighbours of p
Vecinas(p, q) ==
    /\ p # q
    /\ p[1] - q[1] \in -1..1
    /\ p[2] - q[2] \in -1..1

\* q shares only a corner with p
Diagonales(p, q) ==
    /\ p[1] - q[1] \in {-1, 1}
    /\ p[2] - q[2] \in {-1, 1}

Indices == 1..Len(flota)

\* obj declares kind tipo at position p
Declara(obj, p, tipo) ==
    \E k \in 1..Len(obj.partes) : obj.partes[k] = Celda(p[1], p[2], tipo)

----------------------------------------------------------------------------

FlotaAutoconsistente ==
    /\ \A i \in Indices : TodoDentro(flota[i])
    /\ \A i, j \in Indices :
          i # j => Coordenadas(flota[i]) \cap Coordenadas(flota[j]) = {}
    /\ \A i, j \in Indices :
          i # j => \A p \in Coordenadas(flota[i]), q \in Coordenadas(flota[j]) :
                      ~Vecinas(p, q)

(* C1: whenever obtener_barcos_invalidos returns the empty list, every     *)
(* declared cell of every target is inside the grid, no two distinct       *)
(* targets declare the same position, and no cell of one target is in the  *)
(* 8-neighbourhood of a cell of another.                                   *)
C1_ListaVaciaFlotaConsistente ==
    (Tablero /\ ret.op = "obtener_barcos_invalidos" /\ ret.invalidos = <<>>)
        => FlotaAutoconsistente

----------------------------------------------------------------------------

\* <<n, k>>: cell k of target n is declared at p
Declarantes(fl, p) ==
    UNION {{<<n, k>> : k \in {x \in 1..Len(fl[n].partes) : Posicion(fl[n].partes[x]) = p}} :
              n \in 1..Len(fl)}

Posterior(a, b) == a[1] > b[1] \/ (a[1] = b[1] /\ a[2] >= b[2])

TipoEsperado(fl, p) ==
    IF Declarantes(fl, p) = {} THEN "W"
    ELSE LET ult == CHOOSE a \in Declarantes(fl, p) :
                        \A b \in Declarantes(fl, p) : Posterior(a, b)
         IN  fl[ult[1]].partes[ult[2]].tipo

MatrizEsperada(fl) ==
    /\ DOMAIN matriz = 0..(filas_tablero - 1)
    /\ \A f \in DOMAIN matriz :
          /\ DOMAIN matriz[f] = 0..(cols_tablero - 1)
          /\ \A c \in DOMAIN matriz[f] : matriz[f][c] = TipoEsperado(fl, <<f, c>>)

(* C4: constructing the Tablero yields a rows x cols grid whose kind at    *)
(* every in-bounds position is Water when no target declares a cell there  *)
(* and otherwise the kind of the last cell declared there in fleet order;  *)
(* off-grid cells are skipped and the fleet is left as it was.             *)
C4_ConstruirMatriz ==
    [][(pc = "flota" /\ pc' = "tablero") => (MatrizEsperada(flota)' /\ flota' = flota)]_vars

\* a later target overwrote an earlier one's cell, and some declared cell is off the grid
C4_Testigo ==
    /\ Tablero
    /\ \E i, j \in Indices : \E p \in Coordenadas(flota[i]) :
          /\ i < j
          /\ EnTablero(p)
          /\ p \in Coordenadas(flota[j])
          /\ ~Declara(flota[i], p, matriz[p[1]][p[2]])
          /\ Declara(flota[j], p, matriz[p[1]][p[2]])
    /\ \E i \in Indices : ~TodoDentro(flota[i])

----------------------------------------------------------------------------

PredicadosObjetivo == {"validar_limites", "validar_integridad", "validar_espaciado"}

(* C10: validar_limites, validar_integridad and validar_espaciado, called  *)
(* on any target, return a boolean and evaluate the grid only at positions *)
(* inside it; a target that fails the bounds check fails integrity too.    *)
C10_PredicadosAislados ==
    Tablero =>
        /\ ret.op \in PredicadosObjetivo =>
              /\ ret.val \in {"True", "False"}
              /\ \A p \in ret.lecturas : EnTablero(p)
        /\ \A i \in Indices :
              LET lim == validar_limites(flota[i], tamano_tablero, matriz)
                  int == validar_integridad(flota[i], tamano_tablero, matriz)
                  esp == validar_espaciado(flota[i], tamano_tablero, matriz)
              IN  /\ lim.val = "False" => int.val = "False"
                  /\ \A r \in {lim, int, esp} :
                        /\ r.val \in {"True", "False"}
                        /\ \A p \in r.lecturas : EnTablero(p)

\* validar_integridad was called on a target that has a cell inside and a cell outside
C10_Testigo ==
    /\ Tablero
    /\ ret.op = "validar_integridad"
    /\ ret.val = "False"
    /\ \E p, q \in Coordenadas(flota[ret.obj]) : EnTablero(p) /\ ~EnTablero(q)
    /\ \E i \in Indices :
          /\ ~TodoDentro(flota[i])
          /\ validar_espaciado(flota[i], tamano_tablero, matriz).lecturas # {}

----------------------------------------------------------------------------

\* i precedes j and they conflict at p, with no other violation
Conflicto(i, j, p) ==
    /\ i < j
    /\ TodoDentro(flota[i])
    /\ TodoDentro(flota[j])
    /\ p \in Coordenadas(flota[i]) \cap Coordenadas(flota[j])
    /\ \E ti, tj \in Pieza :
          ti # tj /\ Declara(flota[i], p, ti) /\ Declara(flota[j], p, tj)
    /\ \A n \in Indices \ {i, j} :
          Coordenadas(flota[n]) \cap (Coordenadas(flota[i]) \cup Coordenadas(flota[j])) = {}

(* C5: when target T1 precedes T2, both are fully inside the grid, both    *)
(* declare one position with different kinds and no other target declares  *)
(* any of their cells, the grid holds T2's kind there, validar_integridad  *)
(* is false for T1 and true for T2.                                        *)
C5_OrdenDePintado ==
    Tablero =>
        \A i, j \in Indices : \A p \in Coordenadas(flota[i]) :
            Conflicto(i, j, p) =>
                /\ Declara(flota[j], p, matriz[p[1]][p[2]])
                /\ validar_integridad(flota[i], tamano_tablero, matriz).val = "False"
                /\ validar_integridad(flota[j], tamano_tablero, matriz).val = "True"

\* validar_integridad was called on the earlier of two conflicting targets of a fleet
\* that holds a third, unrelated target
C5_Testigo ==
    /\ Tablero
    /\ Len(flota) = 3
    /\ ret.op = "validar_integridad"
    /\ ret.val = "False"
    /\ \E j \in Indices : \E p \in Coordenadas(flota[ret.obj]) : Conflicto(ret.obj, j, p)

----------------------------------------------------------------------------

EnDiagonal(i, j) ==
    /\ i # j
    /\ TodoDentro(flota[i])
    /\ TodoDentro(flota[j])
    /\ Coordenadas(flota[i]) \cap Coordenadas(flota[j]) = {}
    /\ \E p \in Coordenadas(flota[i]), q \in Coordenadas(flota[j]) : Diagonales(p, q)

(* C7: two distinct targets with disjoint cells, all inside the grid, one  *)
(* cell of the first sharing only a corner with a cell of the second:      *)
(* validar_espaciado is false for both.                                    *)
C7_DiagonalFallaEspaciado ==
    Tablero =>
        \A i, j \in Indices :
            EnDiagonal(i, j) =>
                /\ validar_espaciado(flota[i], tamano_tablero, matriz).val = "False"
                /\ validar_espaciado(flota[j], tamano_tablero, matriz).val = "False"

\* validar_espaciado was called on a target that touches another one only at corners
C7_Testigo ==
    /\ Tablero
    /\ ret.op = "validar_espaciado"
    /\ ret.val = "False"
    /\ \E j \in Indices :
          /\ EnDiagonal(ret.obj, j)
          /\ \A p \in Coordenadas(flota[ret.obj]), q \in Coordenadas(flota[j]) :
                Vecinas(p, q) => Diagonales(p, q)
          /\ \A n \in Indices \ {ret.obj, j} :
                \A p \in Coordenadas(flota[ret.obj]), q \in Coordenadas(flota[n]) :
                    p # q /\ ~Vecinas(p, q)

----------------------------------------------------------------------------
(* C3: a Barco of length 1 has exactly one declared cell, at the anchor,   *)
(* of kind Submarine (C), for either orientation.                          *)
C3_BarcoDeUnoEsSubmarino ==
    \A n \in Indices :
        (flota[n].clase = "Barco" /\ flota[n].longitud = 1) =>
            flota[n].partes =
                <<Celda(flota[n].ubicacion[1], flota[n].ubicacion[2], "C")>>

----------------------------------------------------------------------------

TipoDeParte(i, longitud, direccion) ==
    IF i = 0 THEN (IF direccion = "VERTICAL" THEN "T" ELSE "L")
    ELSE IF i = longitud - 1 THEN (IF direccion = "VERTICAL" THEN "B" ELSE "R")
    ELSE "M"

(* C8: a Barco of length L >= 2 has exactly L cells; cell i (from 0) is at *)
(* anchor + i along the rows (Vertical) or the columns (Horizontal); the   *)
(* first is Top/Left-end, the last Bottom/Right-end, the others Middle;    *)
(* this holds for anchors off the grid as well.                            *)
C8_GeometriaDeBarco ==
    \A n \in Indices :
        (flota[n].clase = "Barco" /\ flota[n].longitud >= 2) =>
            LET b == flota[n]
            IN  /\ Len(b.partes) = b.longitud
                /\ \A i \in 0..(b.longitud - 1) :
                      b.partes[i + 1] =
                          Celda(b.ubicacion[1] + (IF b.direccion = "VERTICAL" THEN i ELSE 0),
                                b.ubicacion[2] + (IF b.direccion = "HORIZONTAL" THEN i ELSE 0),
                                TipoDeParte(i, b.longitud, b.direccion))

\* a ship with interior cells whose anchor has a negative coordinate
C8_Testigo ==
    \E n \in Indices :
        /\ flota[n].clase = "Barco"
        /\ flota[n].longitud >= 3
        /\ flota[n].ubicacion[1] < 0
        /\ flota[n].partes[2].tipo = "M"

----------------------------------------------------------------------------

NoAguaEnFila(f) == Cardinality({c \in 0..(cols_tablero - 1) : matriz[f][c] # "W"})

NoAguaEnColumna(c) == Cardinality({f \in 0..(filas_tablero - 1) : matriz[f][c] # "W"})

CuentasCorrectas ==
    /\ \A f \in 0..(filas_tablero - 1) : NoAguaEnFila(f) = pistas_filas[f + 1]
    /\ \A c \in 0..(cols_tablero - 1) : NoAguaEnColumna(c) = pistas_cols[c + 1]

TodoAgua3x3 ==
    /\ tamano_tablero = <<3, 3>>
    /\ \A f, c \in 0..2 : matriz[f][c] = "W"

\* the clues are all zero but for one that is 1
UnaSolaPistaEnUno ==
    Cardinality({k \in 1..3 : pistas_filas[k] = 1} ) + Cardinality({k \in 1..3 : pistas_cols[k] = 1}) = 1
    /\ \A k \in 1..3 : pistas_filas[k] \in {0, 1} /\ pistas_cols[k] \in {0, 1}

(* C6: with clue sequences as long as the grid's sides, validar_cuentas    *)
(* is true iff every row's and every column's number of non-Water cells    *)
(* equals its clue; a 3x3 all-Water grid with all clues zero passes, and   *)
(* fails when any single clue is 1.                                        *)
C6_ValidarCuentas ==
    (/\ Tablero
     /\ ret.op = "validar_cuentas"
     /\ Len(pistas_filas) = filas_tablero
     /\ Len(pistas_cols) = cols_tablero)
        => /\ ret.val \in {"True", "False"}
           /\ ret.val = "True" <=> CuentasCorrectas
           /\ (TodoAgua3x3 /\ \A k \in 1..3 : pistas_filas[k] = 0 /\ pistas_cols[k] = 0)
                 => ret.val = "True"
           /\ (TodoAgua3x3 /\ UnaSolaPistaEnUno) => ret.val = "False"

\* validar_cuentas was called on the 3x3 all-Water grid with one column clue at 1
C6_Testigo ==
    /\ Tablero
    /\ ret.op = "validar_cuentas"
    /\ TodoAgua3x3
    /\ Len(pistas_filas) = 3
    /\ Len(pistas_cols) = 3
    /\ UnaSolaPistaEnUno
    /\ pistas_cols[3] = 1
    /\ ret.val = "False"

----------------------------------------------------------------------------

PrecondicionInvalida ==
    \/ filas_tablero < 0
    \/ cols_tablero < 0
    \/ Len(pistas_filas) # filas_tablero
    \/ Len(pistas_cols) # cols_tablero

(* C9: constructing a Tablero with a negative dimension, or with a row or  *)
(* column clue sequence whose length differs from the grid's row or column *)
(* count, fails at construction: no such board comes to exist.             *)
C9_PrecondicionFallaAlConstruir == Tablero => ~PrecondicionInvalida

----------------------------------------------------------------------------

PistaCumplida(pista) ==
    /\ EnTablero(<<pista[1], pista[2]>>)
    /\ matriz[pista[1]][pista[2]] = pista[3]

(* C2: validar_pistas is total: it returns true iff every assertion's      *)
(* position holds the required kind; an assertion outside the grid is      *)
(* never read and never faults, it makes the check false.                  *)
C2_ValidarPistasTotal ==
    (Tablero /\ ret.op = "validar_pistas") =>
        /\ ret.val \in {"True", "False"}
        /\ \A p \in ret.lecturas : EnTablero(p)
        /\ ret.val = "True" <=> \A k \in 1..Len(pistas) : PistaCumplida(pistas[k])

============================================================================
